---- MODULE Spec2Model ----
(***************************************************************************)
(* The room broadcast and session multiplexing core of the chat server:    *)
(* ChatRoom (server/src/room_manager/room/chat_room.rs) and ChatSession    *)
(* (server/src/session/chat_session.rs).                                   *)
(*                                                                         *)
(* A room owns a participation registry, a bounded message history and a   *)
(* broadcast channel.  A session owns its joined-room map, one forwarding  *)
(* task per joined room and one bounded outbound (mpsc) queue.  A command  *)
(* of a session is several steps, one per await point that another task    *)
(* can interleave with; the session handles one command at a time and does *)
(* not receive while it handles one (both need &mut self).                 *)
(***************************************************************************)
EXTENDS Naturals, Sequences, FiniteSets

(* ------------------------------ universe ------------------------------ *)

\* Connections that can exist.  s1 and s2 are two sessions of the same user.
Sessions == {"s1", "s2", "s3"}

\* SessionAndUserId.user_id of each session (chat_session.rs:27-30).
UserOf == [s \in Sessions |-> IF s = "s3" THEN "B" ELSE "A"]

Users == {UserOf[s] : s \in Sessions}

\* The rooms a directory can be configured with.
Rooms == {"general", "random"}

\* Room names a command can carry: the rooms and a name no directory knows.
RoomNames == Rooms \cup {"nowhere"}

\* Message contents a SendMessage command carries.
Contents == {"hi"}

\* Message contents recorded by the history-only specification.
HistContents == {"x", "y"}

(* ------------------------------- bounds ------------------------------- *)

\* Commands started, over all sessions.
MaxCmds == 3

\* Messages recorded by the history-only specification.
MaxRecords == 11

\* Capacity of a room's broadcast channel, scaled down from
\* BROADCAST_CHANNEL_CAPACITY = 100 (chat_room.rs:17).
BroadcastCap == 2

\* Capacity of a session's outbound queue, scaled down from
\* mpsc::channel(100) (chat_session.rs:26).
MpscCap == 2

(* ------------------------- program constants -------------------------- *)

\* The history bound of add_message_to_history (chat_room.rs:87).
HISTORY_CAPACITY == 10

\* The capacity of a client's message list of a room (state.rs:13).
MAX_MESSAGES_TO_STORE_PER_ROOM == 100

(* -------------------------------- state ------------------------------- *)

VARIABLES
    chat_rooms,       \* RoomManager: the rooms the directory is configured with
    sessions,         \* the connections for which a ChatSession exists
    user_registry,    \* ChatRoom.user_registry: room -> registered sessions
    broadcast,        \* ChatRoom.broadcast_tx: room -> every event sent, in order
    message_history,  \* ChatRoom.message_history: room -> Seq of ChatMessage
    joined_rooms,     \* ChatSession.joined_rooms: session -> rooms in the map
    fwd,              \* ChatSession.join_set: session -> room -> forwarding task
    mpsc,             \* ChatSession.mpsc_tx/mpsc_rx: session -> outbound queue
    pc,               \* session -> the command in progress and its locals
    result,           \* session -> outcome of the last completed command
    ncmds,            \* commands started so far
    recorded,         \* ghost: room -> every message recorded, in order
    enq_log           \* ghost: session -> every item ever enqueued on mpsc

vars == <<chat_rooms, sessions, user_registry, broadcast, message_history, joined_rooms, fwd, mpsc,
          pc, result, ncmds, recorded, enq_log>>

roomVars == <<user_registry, broadcast, message_history, recorded>>

\* The deployment: fixed once the server and the sessions are constructed.
config == <<chat_rooms, sessions>>

(* ------------------------------- events ------------------------------- *)

\* comms::event::Event, one record shape for all variants.
Ev(type, room, user_id, content, status, users, history) ==
    [type |-> type, room |-> room, user_id |-> user_id, content |-> content,
     status |-> status, users |-> users, history |-> history]

NoEvent == Ev("None", "", "", "", "", {}, <<>>)

RoomParticipation(room, user_id, status) ==
    Ev("RoomParticipation", room, user_id, "", status, {}, <<>>)

UserJoinedRoom(room, users) ==
    Ev("UserJoinedRoom", room, "", "", "", users, <<>>)

UserMessage(room, user_id, content) ==
    Ev("UserMessage", room, user_id, content, "", {}, <<>>)

HistoryResponse(room, history) ==
    Ev("HistoryResponse", room, "", "", "", {}, history)

\* ChatMessage { user_id, content } (chat_room.rs:20-23).
ChatMessage(user_id, content) == [user_id |-> user_id, content |-> content]

(* --------------------------- UserRegistry ----------------------------- *)

\* UserRegistry::insert's result: TRUE iff no identity of the user was
\* registered before.
registry_insert_is_new(reg, s) == ~\E t \in reg : UserOf[t] = UserOf[s]

\* UserRegistry::remove's result: TRUE iff no other identity of the user
\* remains.
registry_remove_is_last(reg, s) ==
    s \in reg /\ ~\E t \in reg \ {s} : UserOf[t] = UserOf[s]

\* UserRegistry::get_unique_user_ids on a registry value.
registry_unique_user_ids(reg) == {UserOf[s] : s \in reg}

(* ------------------------------ ChatRoom ------------------------------ *)

\* ChatRoom::get_unique_user_ids.
get_unique_user_ids(r) == registry_unique_user_ids(user_registry[r])

\* Mutant: Joined is broadcast for every joining session.
join_events_per_session(r, s) == <<RoomParticipation(r, UserOf[s], "Joined")>>

\* The events ChatRoom::join sends: Joined iff insert reported a new user.
join_events(r, s) ==
    IF registry_insert_is_new(user_registry[r], s)
    THEN <<RoomParticipation(r, UserOf[s], "Joined")>>
    ELSE <<>>

\* Mutant: the joining session is not inserted into the registry.
join_without_insert(r, s) ==
    /\ user_registry' = user_registry
    /\ broadcast' = [broadcast EXCEPT ![r] = @ \o join_events(r, s)]

\* ChatRoom::join: subscribe (the receiver starts at the channel's tail),
\* insert into the registry, broadcast Joined for a new user.
join(r, s) ==
    /\ user_registry' = [user_registry EXCEPT ![r] = @ \cup {s}]
    /\ broadcast' = [broadcast EXCEPT ![r] = @ \o join_events(r, s)]

\* Mutant: Left is broadcast for every leaving session.
leave_events_per_session(r, s) == <<RoomParticipation(r, UserOf[s], "Left")>>

\* The events ChatRoom::leave sends: Left iff remove reported the last one.
leave_events(r, s) ==
    IF registry_remove_is_last(user_registry[r], s)
    THEN <<RoomParticipation(r, UserOf[s], "Left")>>
    ELSE <<>>

\* Mutant: the leaving session stays in the registry.
leave_keeps_registered(r, s) ==
    /\ user_registry' = user_registry
    /\ broadcast' = [broadcast EXCEPT ![r] = @ \o leave_events(r, s)]

\* ChatRoom::leave: remove from the registry, broadcast Left for the last one.
leave(r, s) ==
    /\ user_registry' = [user_registry EXCEPT ![r] = @ \ {s}]
    /\ broadcast' = [broadcast EXCEPT ![r] = @ \o leave_events(r, s)]

\* Mutant: the oldest message is evicted one message late.
add_message_to_history_late(h, user_id, content) ==
    Append(IF Len(h) > HISTORY_CAPACITY THEN Tail(h) ELSE h,
           ChatMessage(user_id, content))

\* ChatRoom::add_message_to_history on a history value.
add_message_to_history(h, user_id, content) ==
    Append(IF Len(h) >= HISTORY_CAPACITY THEN Tail(h) ELSE h,
           ChatMessage(user_id, content))

\* Mutant: the history is returned newest first.
get_message_history_newest_first(r) ==
    [i \in 1..Len(message_history[r]) |->
        <<message_history[r][Len(message_history[r]) + 1 - i].user_id,
          message_history[r][Len(message_history[r]) + 1 - i].content>>]

\* ChatRoom::get_message_history: the (user_id, content) pairs, oldest first.
get_message_history(r) ==
    [i \in 1..Len(message_history[r]) |->
        <<message_history[r][i].user_id, message_history[r][i].content>>]

(* ----------------------------- RoomManager ---------------------------- *)

\* RoomManager::join_room: ChatRoom::join on the named room, under its lock.
join_room(s, r) == join(r, s)

\* The third component join_room returns: the room's unique user ids right
\* after the join.
join_room_user_ids(r) == registry_unique_user_ids(user_registry'[r])

\* RoomManager::add_room_history: ChatRoom::add_message_to_history with the
\* handle's user id.
add_room_history(s, r, content) ==
    message_history' = [message_history EXCEPT ![r] =
        add_message_to_history(@, UserOf[s], content)]

\* RoomManager::get_room_history: ChatRoom::get_message_history.
get_room_history(r) == get_message_history(r)

\* RoomManager::drop_user_session_handle: ChatRoom::leave with the handle.
drop_user_session_handle(s, r) == leave(r, s)

\* UserSessionHandle::send_message: a UserMessage of the handle's user is
\* sent on the room's broadcast channel.
send_message(s, r, content) ==
    broadcast' = [broadcast EXCEPT ![r] =
        Append(@, UserMessage(r, UserOf[s], content))]

(* ---------------------------- ChatSession ----------------------------- *)

Idle == [op |-> "idle", room |-> "", cur |-> 0, users |-> {}, history |-> <<>>]

Pc(op, room, cur, users, history) ==
    [op |-> op, room |-> room, cur |-> cur, users |-> users, history |-> history]

\* A forwarding task: status none | running | aborted | finished, the
\* receiver's cursor into the room's broadcast sequence, the event it holds
\* while its send to the outbound queue is pending, which spawn it is, and
\* (ghost) the cursor its subscription was created at.
NoTask == [status |-> "none", cur |-> 0, held |-> NoEvent, gen |-> 0,
           start |-> 0]

\* An item of the ghost enqueue log: the event, who enqueued it, and for a
\* room's reply or forwarded event the spawn count of that room's task.
Item(ev, via, gen) == [ev |-> ev, via |-> via, gen |-> gen]

\* mpsc_tx.send completing on session s's queue.
Enqueue(s, ev, via, gen) ==
    /\ Len(mpsc[s]) < MpscCap
    /\ mpsc' = [mpsc EXCEPT ![s] = Append(@, ev)]
    /\ enq_log' = [enq_log EXCEPT ![s] = Append(@, Item(ev, via, gen))]

Start(s) ==
    /\ pc[s].op = "idle"
    /\ ncmds < MaxCmds
    /\ ncmds' = ncmds + 1

Finish(s, res) ==
    /\ pc' = [pc EXCEPT ![s] = Idle]
    /\ result' = [result EXCEPT ![s] = res]

\* Mutant: the contains_key check is missing and the join goes ahead.
JoinRoomAgain(s, r) ==
    /\ s \in sessions
    /\ UNCHANGED config
    /\ Start(s)
    /\ r \in joined_rooms[s]
    /\ join_room(s, r)
    /\ pc' = [pc EXCEPT ![s] =
                Pc("join_send", r, Len(broadcast[r]),
                   join_room_user_ids(r), <<>>)]
    /\ UNCHANGED <<message_history, recorded, joined_rooms, fwd, mpsc,
                   enq_log, result>>

\* JoinRoom on a room already in the map (chat_session.rs:46-48).
JoinRoomAlreadyJoined(s, r) ==
    /\ s \in sessions
    /\ UNCHANGED config
    /\ Start(s)
    /\ r \in joined_rooms[s]
    /\ Finish(s, "AlreadyJoined")
    /\ UNCHANGED <<roomVars, joined_rooms, fwd, mpsc, enq_log>>

\* JoinRoom on a name the directory does not know: join_room fails and the
\* "?" at chat_session.rs:53 returns the error.
JoinRoomNotFound(s, r) ==
    /\ s \in sessions
    /\ UNCHANGED config
    /\ Start(s)
    /\ r \notin joined_rooms[s]
    /\ r \notin chat_rooms
    /\ Finish(s, "RoomNotFound")
    /\ UNCHANGED <<roomVars, joined_rooms, fwd, mpsc, enq_log>>

\* Mutant: the forwarding task is spawned before the reply is sent.
JoinRoomSpawnFirst(s, r) ==
    /\ s \in sessions
    /\ UNCHANGED config
    /\ Start(s)
    /\ r \notin joined_rooms[s]
    /\ r \in chat_rooms
    /\ join_room(s, r)
    /\ pc' = [pc EXCEPT ![s] =
                Pc("join_send", r, Len(broadcast[r]),
                   join_room_user_ids(r), <<>>)]
    /\ fwd' = [fwd EXCEPT ![s][r] =
                 [status |-> "running", cur |-> Len(broadcast[r]),
                  held |-> NoEvent, gen |-> @.gen + 1,
                  start |-> Len(broadcast[r])]]
    /\ UNCHANGED <<message_history, recorded, joined_rooms, mpsc, enq_log,
                   result>>

\* chat_session.rs:50-53: join_room returns the subscription, the handle and
\* the user ids; the session then awaits the send of the reply.
JoinRoomJoin(s, r) ==
    /\ s \in sessions
    /\ UNCHANGED config
    /\ Start(s)
    /\ r \notin joined_rooms[s]
    /\ r \in chat_rooms
    /\ join_room(s, r)
    /\ pc' = [pc EXCEPT ![s] =
                Pc("join_send", r, Len(broadcast[r]),
                   join_room_user_ids(r), <<>>)]
    /\ UNCHANGED <<message_history, recorded, joined_rooms, fwd, mpsc,
                   enq_log, result>>

\* chat_session.rs:57-78: the reply is sent, then the forwarding task is
\* spawned on the subscription and the room is stored in the map.
JoinReply(s) ==
    /\ s \in sessions
    /\ UNCHANGED config
    /\ pc[s].op = "join_send"
    /\ LET r == pc[s].room
           g == fwd[s][r].gen + 1
       IN /\ Enqueue(s, UserJoinedRoom(r, pc[s].users), "reply", g)
          /\ fwd' = [fwd EXCEPT ![s][r] =
                        [status |-> "running", cur |-> pc[s].cur,
                         held |-> NoEvent, gen |-> g, start |-> pc[s].cur]]
          /\ joined_rooms' = [joined_rooms EXCEPT ![s] = @ \cup {r}]
    /\ Finish(s, "Ok")
    /\ UNCHANGED <<roomVars, ncmds>>

\* The JoinRoom arm of handle_user_command, up to its first await
\* (chat_session.rs:45-53).
JoinRoom(s, r) ==
    \/ JoinRoomAlreadyJoined(s, r)
    \/ JoinRoomNotFound(s, r)
    \/ JoinRoomJoin(s, r)

\* The receiver has fallen behind by more than the channel retains.
Lagged(s, r) == Len(broadcast[r]) - fwd[s][r].cur > BroadcastCap

\* Mutant: the receiver yields the newest event and skips the ones before.
FwdRecvNewest(s, r) ==
    /\ s \in sessions
    /\ UNCHANGED config
    /\ fwd[s][r].status = "running"
    /\ fwd[s][r].held = NoEvent
    /\ fwd[s][r].cur < Len(broadcast[r])
    /\ ~Lagged(s, r)
    /\ LET ev == broadcast[r][Len(broadcast[r])]
       IN IF Len(mpsc[s]) < MpscCap
          THEN /\ Enqueue(s, ev, "fwd", fwd[s][r].gen)
               /\ fwd' = [fwd EXCEPT ![s][r].cur = Len(broadcast[r])]
          ELSE /\ fwd' = [fwd EXCEPT ![s][r].cur = Len(broadcast[r]),
                                     ![s][r].held = ev]
               /\ UNCHANGED <<mpsc, enq_log>>
    /\ UNCHANGED <<roomVars, joined_rooms, pc, result, ncmds>>

\* chat_session.rs:69-70: broadcast_rx.recv() yields the next event, which
\* is sent on if the queue has room and held by the pending send otherwise.
FwdRecv(s, r) ==
    /\ s \in sessions
    /\ UNCHANGED config
    /\ fwd[s][r].status = "running"
    /\ fwd[s][r].held = NoEvent
    /\ fwd[s][r].cur < Len(broadcast[r])
    /\ ~Lagged(s, r)
    /\ LET ev == broadcast[r][fwd[s][r].cur + 1]
       IN IF Len(mpsc[s]) < MpscCap
          THEN /\ Enqueue(s, ev, "fwd", fwd[s][r].gen)
               /\ fwd' = [fwd EXCEPT ![s][r].cur = @ + 1]
          ELSE /\ fwd' = [fwd EXCEPT ![s][r].cur = @ + 1, ![s][r].held = ev]
               /\ UNCHANGED <<mpsc, enq_log>>
    /\ UNCHANGED <<roomVars, joined_rooms, pc, result, ncmds>>

\* chat_session.rs:69: broadcast_rx.recv() yields Err(Lagged), "while let Ok"
\* ends the loop and the task returns.
FwdLagged(s, r) ==
    /\ s \in sessions
    /\ UNCHANGED config
    /\ fwd[s][r].status = "running"
    /\ fwd[s][r].held = NoEvent
    /\ Lagged(s, r)
    /\ fwd' = [fwd EXCEPT ![s][r].status = "finished"]
    /\ UNCHANGED <<roomVars, joined_rooms, mpsc, enq_log, pc, result, ncmds>>

\* chat_session.rs:70: the pending send of the held event completes.
FwdSend(s, r) ==
    /\ s \in sessions
    /\ UNCHANGED config
    /\ fwd[s][r].status = "running"
    /\ fwd[s][r].held # NoEvent
    /\ Enqueue(s, fwd[s][r].held, "fwd", fwd[s][r].gen)
    /\ fwd' = [fwd EXCEPT ![s][r].held = NoEvent]
    /\ UNCHANGED <<roomVars, joined_rooms, pc, result, ncmds>>

\* Mutant: GetHistory on a room that is not in the map replies with an
\* empty history.
NotJoinedReplies(s, r) ==
    /\ s \in sessions
    /\ UNCHANGED config
    /\ Start(s)
    /\ r \notin joined_rooms[s]
    /\ Enqueue(s, HistoryResponse(r, <<>>), "hist", 0)
    /\ Finish(s, "Ok")
    /\ UNCHANGED <<roomVars, joined_rooms, fwd>>

\* SendMessage, GetHistory or LeaveRoom on a room that is not in the map
\* (chat_session.rs:81, 91, 96): nothing is done.
NotJoinedNoOp(s, r) ==
    /\ s \in sessions
    /\ UNCHANGED config
    /\ Start(s)
    /\ r \notin joined_rooms[s]
    /\ Finish(s, "Ok")
    /\ UNCHANGED <<roomVars, joined_rooms, fwd, mpsc, enq_log>>

\* Mutant: the message is published without being recorded.
SendMessageUnrecorded(s, r, content) ==
    /\ s \in sessions
    /\ UNCHANGED config
    /\ Start(s)
    /\ r \in joined_rooms[s]
    /\ pc' = [pc EXCEPT ![s] = Pc("send_pub", r, 0, {}, <<content>>)]
    /\ UNCHANGED <<roomVars, joined_rooms, fwd, mpsc, enq_log, result>>

\* chat_session.rs:81-85: add_room_history records the message.
SendMessage(s, r, content) ==
    /\ s \in sessions
    /\ UNCHANGED config
    /\ Start(s)
    /\ r \in joined_rooms[s]
    /\ add_room_history(s, r, content)
    /\ recorded' = [recorded EXCEPT ![r] = Append(@, <<UserOf[s], content>>)]
    /\ pc' = [pc EXCEPT ![s] = Pc("send_pub", r, 0, {}, <<content>>)]
    /\ UNCHANGED <<user_registry, broadcast, joined_rooms, fwd, mpsc, enq_log,
                   result>>

\* Mutant: the publish waits while a subscriber of the room has a full
\* backlog.
SendPublishBackpressure(s) ==
    /\ s \in sessions
    /\ UNCHANGED config
    /\ pc[s].op = "send_pub"
    /\ \A t \in Sessions :
          fwd[t][pc[s].room].status = "running" =>
             Len(broadcast[pc[s].room]) - fwd[t][pc[s].room].cur < BroadcastCap
    /\ send_message(s, pc[s].room, pc[s].history[1])
    /\ Finish(s, "Ok")
    /\ UNCHANGED <<user_registry, message_history, recorded, joined_rooms, fwd,
                   mpsc, enq_log, ncmds>>

\* chat_session.rs:86: user_session_handle.send_message publishes.
SendPublish(s) ==
    /\ s \in sessions
    /\ UNCHANGED config
    /\ pc[s].op = "send_pub"
    /\ send_message(s, pc[s].room, pc[s].history[1])
    /\ Finish(s, "Ok")
    /\ UNCHANGED <<user_registry, message_history, recorded, joined_rooms, fwd,
                   mpsc, enq_log, ncmds>>

\* Mutant: the room is removed from the map and the handle is not dropped.
remove_without_drop(s, r) ==
    /\ joined_rooms' = [joined_rooms EXCEPT ![s] = @ \ {r}]
    /\ UNCHANGED <<user_registry, broadcast>>

\* The removal of the room from the map (chat_session.rs:91, 120) and the
\* first half of cleanup_room (chat_session.rs:134-136).
remove_and_drop(s, r) ==
    /\ joined_rooms' = [joined_rooms EXCEPT ![s] = @ \ {r}]
    /\ drop_user_session_handle(s, r)

\* Mutant: the forwarding task is not aborted.
abort_missing(s, r) == fwd' = fwd

\* Mutant: every forwarding task of the session is aborted.
abort_every_task(s, r) ==
    fwd' = [fwd EXCEPT ![s] =
              [q \in Rooms |->
                 IF @[q].status = "running"
                 THEN [@[q] EXCEPT !.status = "aborted", !.held = NoEvent]
                 ELSE @[q]]]

\* cleanup_room, second half (chat_session.rs:138): abort_handle.abort()
\* cancels the room's forwarding task; an event its send holds is dropped.
abort(s, r) ==
    fwd' = [fwd EXCEPT ![s][r] =
              IF @.status = "running"
              THEN [@ EXCEPT !.status = "aborted", !.held = NoEvent]
              ELSE @]

\* The LeaveRoom arm on a joined room (chat_session.rs:89-93), up to the
\* return of drop_user_session_handle.
LeaveRoom(s, r) ==
    /\ s \in sessions
    /\ UNCHANGED config
    /\ Start(s)
    /\ r \in joined_rooms[s]
    /\ remove_and_drop(s, r)
    /\ pc' = [pc EXCEPT ![s] = Pc("leave_abort", r, 0, {}, <<>>)]
    /\ UNCHANGED <<message_history, recorded, fwd, mpsc, enq_log, result>>

\* Mutant: the abort also removes the room's events from the queue.
LeaveAbortPurging(s) ==
    /\ s \in sessions
    /\ UNCHANGED config
    /\ pc[s].op = "leave_abort"
    /\ abort(s, pc[s].room)
    /\ mpsc' = [mpsc EXCEPT ![s] =
                  SelectSeq(@, LAMBDA e : e.room # pc[s].room)]
    /\ Finish(s, "Ok")
    /\ UNCHANGED <<roomVars, joined_rooms, enq_log, ncmds>>

\* The LeaveRoom arm, from abort_handle.abort() to its return.
LeaveAbort(s) ==
    /\ s \in sessions
    /\ UNCHANGED config
    /\ pc[s].op = "leave_abort"
    /\ abort(s, pc[s].room)
    /\ Finish(s, "Ok")
    /\ UNCHANGED <<roomVars, joined_rooms, mpsc, enq_log, ncmds>>

\* chat_session.rs:95-98: the history is fetched; the send of the reply is
\* awaited next.
GetHistory(s, r) ==
    /\ s \in sessions
    /\ UNCHANGED config
    /\ Start(s)
    /\ r \in joined_rooms[s]
    /\ pc' = [pc EXCEPT ![s] =
                Pc("hist_send", r, 0, {}, get_room_history(r))]
    /\ UNCHANGED <<roomVars, joined_rooms, fwd, mpsc, enq_log, result>>

\* chat_session.rs:99-104.
HistoryReply(s) ==
    /\ s \in sessions
    /\ UNCHANGED config
    /\ pc[s].op = "hist_send"
    /\ Enqueue(s, HistoryResponse(pc[s].room, pc[s].history), "hist", 0)
    /\ Finish(s, "Ok")
    /\ UNCHANGED <<roomVars, joined_rooms, fwd, ncmds>>

\* leave_all_rooms (chat_session.rs:114-126): the keys are collected.
LeaveAll(s) ==
    /\ s \in sessions
    /\ UNCHANGED config
    /\ Start(s)
    /\ IF joined_rooms[s] = {}
       THEN Finish(s, "Ok")
       ELSE /\ pc' = [pc EXCEPT ![s] = Pc("all_loop", "", 0, {}, <<>>)]
            /\ UNCHANGED result
    /\ UNCHANGED <<roomVars, joined_rooms, fwd, mpsc, enq_log>>

\* chat_session.rs:119-121: the next room, in the map's (arbitrary) order.
LeaveAllDrop(s, r) ==
    /\ s \in sessions
    /\ UNCHANGED config
    /\ pc[s].op = "all_loop"
    /\ r \in joined_rooms[s]
    /\ remove_and_drop(s, r)
    /\ pc' = [pc EXCEPT ![s] = Pc("all_abort", r, 0, {}, <<>>)]
    /\ UNCHANGED <<message_history, recorded, fwd, mpsc, enq_log, result,
                   ncmds>>

\* leave_all_rooms: abort_handle.abort() for the room just left, then the
\* next iteration or the return.
LeaveAllAbort(s) ==
    /\ s \in sessions
    /\ UNCHANGED config
    /\ pc[s].op = "all_abort"
    /\ abort(s, pc[s].room)
    /\ IF joined_rooms[s] = {}
       THEN Finish(s, "Ok")
       ELSE /\ pc' = [pc EXCEPT ![s] = Pc("all_loop", "", 0, {}, <<>>)]
            /\ UNCHANGED result
    /\ UNCHANGED <<roomVars, joined_rooms, mpsc, enq_log, ncmds>>

\* recv (chat_session.rs:144-149): the session's consumer takes the next
\* event; it needs &mut self, so no command is in progress.
recv(s) ==
    /\ s \in sessions
    /\ UNCHANGED config
    /\ pc[s].op = "idle"
    /\ mpsc[s] # <<>>
    /\ mpsc' = [mpsc EXCEPT ![s] = Tail(@)]
    /\ UNCHANGED <<roomVars, joined_rooms, fwd, enq_log, pc, result, ncmds>>

(* ------------------------- client state (tui) ------------------------- *)

\* MessageBoxItem::Message and MessageBoxItem::Notification (state.rs:8-11).
Message(user_id, content) ==
    [kind |-> "Message", user_id |-> user_id, content |-> content]

Notification(user_id, what) ==
    [kind |-> "Notification", user_id |-> user_id, content |-> what]

\* CircularQueue::push: the oldest item is overwritten at capacity.
push(messages, item) ==
    Append(IF Len(messages) >= MAX_MESSAGES_TO_STORE_PER_ROOM
           THEN Tail(messages) ELSE messages, item)

\* RoomData::default (state.rs:34-46).
RoomDataDefault ==
    [users |-> {}, messages |-> <<>>, has_joined |-> FALSE,
     has_unread |-> FALSE, first_time |-> TRUE]

\* The client's State once LoginSuccessful for user_id, listing the rooms,
\* has been handled (state.rs:106-114); no room is active.
LoggedIn(user_id) ==
    [user_id |-> user_id, active_room |-> "",
     room_data_map |-> [r \in Rooms |-> RoomDataDefault]]

RECURSIVE push_all(_, _)
\* The loop of the HistoryResponse arm (state.rs:165-170).
push_all(messages, history) ==
    IF history = <<>> THEN messages
    ELSE push_all(push(messages, Message(history[1][1], history[1][2])),
                  Tail(history))

\* State::handle_server_event (state.rs:104-176) for the events of a room.
handle_server_event(state, event) ==
    LET room_data == state.room_data_map[event.room]
        set(rd) == [state EXCEPT !.room_data_map[event.room] = rd]
    IN CASE event.type = "RoomParticipation" /\ event.status = "Joined" ->
              set([room_data EXCEPT
                     !.users = @ \cup {event.user_id},
                     !.has_joined = IF event.user_id = state.user_id
                                    THEN TRUE ELSE @,
                     !.messages = push(@, Notification(event.user_id, "joined"))])
         [] event.type = "RoomParticipation" /\ event.status = "Left" ->
              set([room_data EXCEPT
                     !.users = @ \ {event.user_id},
                     !.has_joined = IF event.user_id = state.user_id
                                    THEN FALSE ELSE @,
                     !.messages = push(@, Notification(event.user_id, "left"))])
         [] event.type = "UserJoinedRoom" ->
              set([room_data EXCEPT !.users = event.users])
         [] event.type = "UserMessage" ->
              set([room_data EXCEPT
                     !.messages = push(@, Message(event.user_id, event.content)),
                     !.has_unread = IF state.active_room # ""
                                       /\ state.active_room # event.room
                                    THEN TRUE ELSE @])
         [] event.type = "HistoryResponse" ->
              set([room_data EXCEPT
                     !.messages = push_all(@, event.history),
                     !.first_time = FALSE])
         [] OTHER -> state

RECURSIVE handle_server_events(_, _)
\* handle_server_event applied to a sequence of events in order.
handle_server_events(state, events) ==
    IF events = <<>> THEN state
    ELSE handle_server_events(handle_server_event(state, Head(events)),
                              Tail(events))

\* State::try_set_active_room (state.rs:193-200) on a room of the map: the
\* room becomes the active one and its unread mark is cleared.
try_set_active_room(state, room) ==
    [state EXCEPT !.active_room = room,
                  !.room_data_map[room].has_unread = FALSE]

\* The commands the SelectRoom arm of StateStore::main_loop writes to the
\* server (state_store.rs:91-112): JoinRoom unless the room is marked as
\* joined, then GetHistory if the room is entered for the first time; none
\* for a room that is not in the map.
select_room_commands(state, room) ==
    IF room \notin DOMAIN state.room_data_map THEN <<>>
    ELSE LET selected == try_set_active_room(state, room)
             room_data == selected.room_data_map[room]
         IN (IF ~room_data.has_joined THEN <<"JoinRoom">> ELSE <<>>) \o
            (IF room_data.first_time THEN <<"GetHistory">> ELSE <<>>)

(* ---------------------------- specification --------------------------- *)

\* ChatRoom::new (chat_room.rs:36-45) and ChatSession::new
\* (chat_session.rs:25-40), for a directory of rooms and a set of sessions.
Constructed(rooms, conns) ==
    /\ chat_rooms = rooms
    /\ sessions = conns
    /\ user_registry = [r \in Rooms |-> {}]
    /\ broadcast = [r \in Rooms |-> <<>>]
    /\ message_history = [r \in Rooms |-> <<>>]
    /\ joined_rooms = [s \in Sessions |-> {}]
    /\ fwd = [s \in Sessions |-> [r \in Rooms |-> NoTask]]
    /\ mpsc = [s \in Sessions |-> <<>>]
    /\ pc = [s \in Sessions |-> Idle]
    /\ result = [s \in Sessions |-> "None"]
    /\ ncmds = 0
    /\ recorded = [r \in Rooms |-> <<>>]
    /\ enq_log = [s \in Sessions |-> <<>>]

\* One room, three sessions of two users.
Init == Constructed({"general"}, Sessions)

\* Two rooms, two sessions of different users.
InitRooms == Constructed(Rooms, {"s1", "s3"})

Command(s) ==
    \/ \E r \in RoomNames : JoinRoomAlreadyJoined(s, r)
    \/ \E r \in RoomNames : JoinRoomNotFound(s, r)
    \/ \E r \in RoomNames : JoinRoomJoin(s, r)
    \/ \E r \in RoomNames : NotJoinedNoOp(s, r)
    \/ \E r \in RoomNames, c \in Contents : SendMessage(s, r, c)
    \/ \E r \in RoomNames : LeaveRoom(s, r)
    \/ \E r \in RoomNames : GetHistory(s, r)
    \/ LeaveAll(s)

Step(s) ==
    \/ JoinReply(s)
    \/ SendPublish(s)
    \/ LeaveAbort(s)
    \/ HistoryReply(s)
    \/ \E r \in Rooms : LeaveAllDrop(s, r)
    \/ LeaveAllAbort(s)

Forward(s) ==
    \/ \E r \in Rooms : FwdRecv(s, r)
    \/ \E r \in Rooms : FwdLagged(s, r)
    \/ \E r \in Rooms : FwdSend(s, r)

Next == \E s \in Sessions : Command(s) \/ Step(s) \/ Forward(s) \/ recv(s)

Spec == Init /\ [][Next]_vars

SpecRooms == InitRooms /\ [][Next]_vars

(* ------------------- specification with fair scheduling --------------- *)

\* One room, one session of each user.
LiveRooms == {"general"}

LiveSessions == {"s1", "s3"}

InitLive == Constructed(LiveRooms, LiveSessions)

\* The runtime keeps polling a command that can proceed and every forwarding
\* task that can proceed, and the connection's loop keeps calling recv when
\* no command is handled.  When a client sends a command is not constrained.
Fairness ==
    \A s \in Sessions :
        /\ WF_vars(Step(s))
        /\ WF_vars(Forward(s))
        /\ WF_vars(recv(s))

SpecLive == InitLive /\ [][Next]_vars /\ Fairness

(* ------------------- specification of a room in use ------------------- *)

\* The state after user B's session s3 has joined "general" and sent "hi",
\* with every event forwarded and received; s1 has not done anything.
\* ncmds counts the commands started from here on.
InitInUse ==
    LET joined == RoomParticipation("general", "B", "Joined")
        said == UserMessage("general", "B", "hi")
    IN /\ chat_rooms = LiveRooms
       /\ sessions = LiveSessions
       /\ user_registry = [r \in Rooms |-> IF r = "general" THEN {"s3"} ELSE {}]
       /\ broadcast = [r \in Rooms |->
                         IF r = "general" THEN <<joined, said>> ELSE <<>>]
       /\ message_history = [r \in Rooms |->
                         IF r = "general" THEN <<ChatMessage("B", "hi")>>
                         ELSE <<>>]
       /\ recorded = [r \in Rooms |->
                         IF r = "general" THEN << <<"B", "hi">> >> ELSE <<>>]
       /\ joined_rooms = [s \in Sessions |->
                         IF s = "s3" THEN {"general"} ELSE {}]
       /\ fwd = [s \in Sessions |-> [r \in Rooms |->
                         IF s = "s3" /\ r = "general"
                         THEN [status |-> "running", cur |-> 2,
                               held |-> NoEvent, gen |-> 1, start |-> 0]
                         ELSE NoTask]]
       /\ mpsc = [s \in Sessions |-> <<>>]
       /\ enq_log = [s \in Sessions |->
                         IF s = "s3"
                         THEN <<Item(UserJoinedRoom("general", {"B"}), "reply", 1),
                                Item(joined, "fwd", 1), Item(said, "fwd", 1)>>
                         ELSE <<>>]
       /\ pc = [s \in Sessions |-> Idle]
       /\ result = [s \in Sessions |-> IF s = "s3" THEN "Ok" ELSE "None"]
       /\ ncmds = 0

SpecInUse == InitInUse /\ [][Next]_vars

(* ------------------- history-only specification ----------------------- *)

\* ChatRoom::add_message_to_history called on one room any number of times.
RecordMessage(r, user_id, content) ==
    /\ Len(recorded[r]) < MaxRecords
    /\ message_history' = [message_history EXCEPT ![r] =
            add_message_to_history(@, user_id, content)]
    /\ recorded' = [recorded EXCEPT ![r] = Append(@, <<user_id, content>>)]
    /\ UNCHANGED <<config, user_registry, broadcast, joined_rooms, fwd, mpsc,
                   pc, result, ncmds, enq_log>>

NextHist == \E c \in HistContents : RecordMessage("general", "A", c)

SpecHist == Init /\ [][NextHist]_vars

(* ------------------- specification with a failing drop ---------------- *)

\* leave_all_rooms when drop_user_session_handle returns Err
\* (chat_session.rs:120-121 and 134-136): the room is already removed from
\* the map, the handle is consumed without ChatRoom::leave, abort is not
\* reached and "?" returns the error with the remaining rooms untouched.
LeaveAllDropFail(s, r) ==
    /\ s \in sessions
    /\ UNCHANGED config
    /\ pc[s].op = "all_loop"
    /\ r \in joined_rooms[s]
    /\ joined_rooms' = [joined_rooms EXCEPT ![s] = @ \ {r}]
    /\ pc' = [pc EXCEPT ![s] = Pc("failed", r, 0, {}, <<>>)]
    /\ result' = [result EXCEPT ![s] = "InvalidHandle"]
    /\ UNCHANGED <<roomVars, fwd, mpsc, enq_log, ncmds>>

\* SendMessage when add_room_history returns Err (chat_session.rs:82-85):
\* "?" returns the error before send_message is reached.
SendMessageFail(s, r) ==
    /\ s \in sessions
    /\ UNCHANGED config
    /\ Start(s)
    /\ r \in joined_rooms[s]
    /\ Finish(s, "InvalidHandle")
    /\ UNCHANGED <<roomVars, joined_rooms, fwd, mpsc, enq_log>>

NextFault ==
    \/ Next
    \/ \E s \in Sessions, r \in Rooms : LeaveAllDropFail(s, r)
    \/ \E s \in Sessions, r \in Rooms : SendMessageFail(s, r)

SpecFault == InitRooms /\ [][NextFault]_vars

(* ------------------------------- claims ------------------------------- *)

\* Session s holds a membership handle of room r: the room is in its map, or
\* join_room has returned and the handle is a local of the JoinRoom arm.
HoldsHandle(s, r) ==
    \/ r \in joined_rooms[s]
    \/ pc[s].op = "join_send" /\ pc[s].room = r

\* C1: in every reachable state, each room's distinct-userId set is the set
\* of userIds with at least one session currently joined to the room.
C1_DistinctUsersAreJoinedUsers ==
    \A r \in Rooms :
        get_unique_user_ids(r) = {UserOf[s] : s \in {t \in Sessions : HoldsHandle(t, r)}}

\* C1 witness: one session of user A has joined and left a room in which
\* A's other session stays, and A is still in the room's distinct set.
C1_Witness ==
    \E r \in Rooms :
        /\ fwd["s2"][r].status = "aborted"
        /\ ~HoldsHandle("s2", r)
        /\ r \in joined_rooms["s1"]
        /\ "A" \in get_unique_user_ids(r)

\* The events a step appends to room r's broadcast channel.
NewEvents(r) ==
    SubSeq(broadcast'[r], Len(broadcast[r]) + 1, Len(broadcast'[r]))

\* The participation events of user u among them.
NewParticipation(r, u) ==
    SelectSeq(NewEvents(r),
              LAMBDA e : e.type = "RoomParticipation" /\ e.user_id = u)

\* C2: a step publishes exactly one Joined for a user who goes from absent
\* to present in the room's distinct set, exactly one Left for a user who
\* goes from present to absent, and no participation event for a user whose
\* presence the step does not change.
C2_OneEventPerTransition ==
    [][\A r \in Rooms, u \in Users :
         LET before == u \in get_unique_user_ids(r)
             after == u \in registry_unique_user_ids(user_registry'[r])
         IN /\ (~before /\ after) =>
                  NewParticipation(r, u) = <<RoomParticipation(r, u, "Joined")>>
            /\ (before /\ ~after) =>
                  NewParticipation(r, u) = <<RoomParticipation(r, u, "Left")>>
            /\ (before <=> after) => NewParticipation(r, u) = <<>>]_vars

\* C2 witness: both sessions of user A joined a room and one of them left
\* it again; the room's channel carries one Joined for A and nothing else.
C2_Witness ==
    \E r \in Rooms :
        /\ user_registry[r] = {"s2"}
        /\ fwd["s1"][r].status = "aborted"
        /\ fwd["s2"][r].status = "running"
        /\ broadcast[r] = <<RoomParticipation(r, "A", "Joined")>>

\* C3: after n recorded messages the history is the last min(n, 10) of
\* them as (userId, content) pairs, oldest first.
C3_HistoryIsLastTen ==
    \A r \in Rooms :
        LET n == Len(recorded[r])
            k == IF n < 10 THEN n ELSE 10
        IN get_message_history(r) = [i \in 1..k |-> recorded[r][n - k + i]]

\* C3 witness: eleven messages m1..m11 were recorded and the history is
\* m2..m11.
C3_Witness ==
    /\ Len(recorded["general"]) = 11
    /\ Len(message_history["general"]) = 10
    /\ get_message_history("general") = Tail(recorded["general"])
    /\ recorded["general"][1] # recorded["general"][2]

\* C4: a forwarding task whose subscription has fallen more than the
\* channel's capacity behind does not terminate while its session is still
\* joined to the room.
C4_LaggedTaskKeepsRunning ==
    [][\A s \in Sessions, r \in Rooms :
         (r \in joined_rooms[s] /\ fwd[s][r].status = "running" /\ Lagged(s, r))
            => fwd'[s][r].status = "running"]_vars

\* Item j of session s's enqueue log was forwarded from a subscription whose
\* RoomJoined reply is an earlier item of the log.
ReplyPrecedes(s, j) ==
    \E i \in 1..(j - 1) :
        /\ enq_log[s][i].via = "reply"
        /\ enq_log[s][i].ev.type = "UserJoinedRoom"
        /\ enq_log[s][i].ev.room = enq_log[s][j].ev.room
        /\ enq_log[s][i].gen = enq_log[s][j].gen

\* C5: on every session's outbound queue, each event forwarded from a room
\* subscription comes after the RoomJoined reply of the join that created
\* the subscription.
C5_ReplyBeforeForwarded ==
    \A s \in Sessions :
        \A j \in 1..Len(enq_log[s]) :
            enq_log[s][j].via = "fwd" => ReplyPrecedes(s, j)

\* C5 witness: a session's own RoomParticipation(Joined) was forwarded to
\* its queue after the reply of the same join.
C5_Witness ==
    \E s \in Sessions :
        \E j \in 1..Len(enq_log[s]) :
            /\ enq_log[s][j].via = "fwd"
            /\ enq_log[s][j].ev =
                 RoomParticipation(enq_log[s][j].ev.room, UserOf[s], "Joined")
            /\ ReplyPrecedes(s, j)

\* C6: a JoinRoom command for a room already in the session's map returns
\* AlreadyJoined and changes neither the map, the forwarding tasks, the
\* room's registry, the broadcast channels nor the outbound queue.
C6_AlreadyJoinedIsReportedAndInert ==
    [][\A s \in Sessions, r \in Rooms :
         (JoinRoom(s, r) /\ r \in joined_rooms[s]) =>
            /\ result'[s] = "AlreadyJoined"
            /\ pc'[s] = Idle
            /\ UNCHANGED <<joined_rooms, fwd, user_registry, broadcast,
                           mpsc, enq_log>>]_vars

\* C6 witness: a session's JoinRoom was refused while it is joined to a room
\* with its forwarding task running.
C6_Witness ==
    \E s \in Sessions, r \in Rooms :
        /\ result[s] = "AlreadyJoined"
        /\ pc[s] = Idle
        /\ r \in joined_rooms[s]
        /\ fwd[s][r].status = "running"
        /\ s \in user_registry[r]

\* Session s has left room r and the command that left it has returned.
HasLeft(s, r) ==
    /\ fwd[s][r].status # "none"
    /\ r \notin joined_rooms[s]
    /\ ~(pc[s].room = r /\ pc[s].op \in {"join_send", "leave_abort", "all_abort"})

\* The items a step appends to session s's enqueue log.
NewItems(s) ==
    SubSeq(enq_log'[s], Len(enq_log[s]) + 1, Len(enq_log'[s]))

LeaveRoomStep(s, r) ==
    \/ LeaveRoom(s, r)
    \/ LeaveAbort(s) /\ pc[s].room = r

\* C8: LeaveRoom of room r by session s leaves the session's membership,
\* registration and forwarding task of every other room as they are, and
\* every other session's map, registrations and forwarding tasks.
C8_LeaveRoomFrame ==
    [][\A s \in Sessions, r \in Rooms :
         LeaveRoomStep(s, r) =>
            /\ \A q \in Rooms \ {r} :
                  /\ (q \in joined_rooms'[s]) <=> (q \in joined_rooms[s])
                  /\ fwd'[s][q] = fwd[s][q]
                  /\ user_registry'[q] = user_registry[q]
                  /\ broadcast'[q] = broadcast[q]
            /\ \A t \in Sessions \ {s} :
                  /\ joined_rooms'[t] = joined_rooms[t]
                  /\ fwd'[t] = fwd[t]
                  /\ (t \in user_registry'[r]) <=> (t \in user_registry[r])]_vars

\* C8 witness: a session has left one room and is still joined to another
\* one, whose forwarding task is running.
C8_Witness ==
    \E s \in Sessions, r \in Rooms, q \in Rooms :
        /\ q # r
        /\ pc[s] = Idle
        /\ fwd[s][r].status = "aborted"
        /\ r \notin joined_rooms[s]
        /\ q \in joined_rooms[s]
        /\ fwd[s][q].status = "running"
        /\ s \in user_registry[q]

\* A step in which leave_all_rooms of session s returns.
LeaveAllReturns(s) ==
    /\ pc[s].op \in {"idle", "all_loop", "all_abort"}
    /\ pc'[s].op \in {"idle", "failed"}
    /\ \/ LeaveAll(s)
       \/ LeaveAllAbort(s)
       \/ \E r \in Rooms : LeaveAllDropFail(s, r)

\* C9: when leave_all_rooms returns, the session's map is empty, none of its
\* forwarding tasks is running and it is registered in no room.
C9_LeaveAllReleasesEverything ==
    [][\A s \in Sessions :
         LeaveAllReturns(s) =>
            /\ joined_rooms'[s] = {}
            /\ \A r \in Rooms :
                  /\ fwd'[s][r].status # "running"
                  /\ s \notin user_registry'[r]]_vars

\* C10: the RoomJoined reply of a successful JoinRoom carries the room's
\* distinct-userId set as it is right after the joining identity was
\* registered, which contains the joining user, and is the joining user
\* alone when the room was empty.
C10_ReplyCarriesSnapshot ==
    [][\A s \in Sessions :
         /\ (pc[s].op = "idle" /\ pc'[s].op = "join_send") =>
               LET r == pc'[s].room
               IN /\ s \in user_registry'[r]
                  /\ pc'[s].users = {UserOf[t] : t \in user_registry'[r]}
                  /\ pc'[s].users = {UserOf[t] : t \in user_registry[r] \cup {s}}
                  /\ UserOf[s] \in pc'[s].users
                  /\ (user_registry[r] = {}) => pc'[s].users = {UserOf[s]}
         /\ (pc[s].op = "join_send" /\ pc'[s].op = "idle") =>
               /\ mpsc'[s] = Append(mpsc[s], UserJoinedRoom(pc[s].room, pc[s].users))
               /\ UserOf[s] \in pc[s].users]_vars

\* C10 witness: a session received a reply listing both users, and a session
\* that joined an empty room received a reply listing itself alone.
C10_Witness ==
    /\ \E s \in Sessions : \E i \in 1..Len(enq_log[s]) :
          /\ enq_log[s][i].via = "reply"
          /\ enq_log[s][i].ev.users = {"A", "B"}
    /\ \E s \in Sessions : \E i \in 1..Len(enq_log[s]) :
          /\ enq_log[s][i].via = "reply"
          /\ enq_log[s][i].ev.users = {UserOf[s]}

\* The events of a sequence of enqueue-log items.
EventsOf(items) == [i \in 1..Len(items) |-> items[i].ev]

\* The events the current forwarding task of session s for room r has placed
\* on the session's outbound queue, in queue order.
Forwarded(s, r) ==
    EventsOf(SelectSeq(enq_log[s],
                       LAMBDA it : /\ it.via = "fwd"
                                   /\ it.ev.room = r
                                   /\ it.gen = fwd[s][r].gen))

\* The same, followed by the event the task's pending send holds.
Taken(s, r) ==
    Forwarded(s, r) \o
        (IF fwd[s][r].held = NoEvent THEN <<>> ELSE <<fwd[s][r].held>>)

\* Session s is joined to room r and its subscription is being forwarded.
Subscribed(s, r) == r \in joined_rooms[s] /\ fwd[s][r].status = "running"

\* A command of session s waits to send its reply on the session's own full
\* queue, which only the session's recv drains.
Blocked(s) ==
    pc[s].op \in {"join_send", "hist_send"} /\ Len(mpsc[s]) = MpscCap

\* What a forwarding task has placed on the queue is, event for event and in
\* order, what was published on its room's channel since its subscription.
InPublishOrderOnce ==
    \A s \in Sessions, r \in Rooms :
        fwd[s][r].status # "none" =>
            /\ Forwarded(s, r) =
                  SubSeq(broadcast[r], fwd[s][r].start + 1,
                         fwd[s][r].start + Len(Forwarded(s, r)))
            /\ fwd[s][r].status = "running" =>
                  Len(Taken(s, r)) = fwd[s][r].cur - fwd[s][r].start

\* The k-th event of room r's channel, published on session s's running
\* subscription, reaches the session's queue unless the session leaves the
\* room, the subscription lags and its task ends, or the session is blocked
\* on its own queue.
EventuallyForwarded(s, r, k) ==
    (/\ Subscribed(s, r)
     /\ fwd[s][r].start < k
     /\ k <= Len(broadcast[r]))
        ~> (\/ ~Subscribed(s, r)
            \/ Blocked(s)
            \/ Len(Forwarded(s, r)) >= k - fwd[s][r].start)

PublishedBy(r, u) ==
    SelectSeq(broadcast[r],
              LAMBDA e : e.type = "UserMessage" /\ e.user_id = u)

\* The messages of user u in room r's history.
RecordedBy(r, u) ==
    SelectSeq(message_history[r], LAMBDA m : m.user_id = u)

\* The sessions of user u whose SendMessage on room r has recorded its
\* message and not yet published it.
Publishing(r, u) ==
    {s \in Sessions :
        pc[s].op = "send_pub" /\ pc[s].room = r /\ UserOf[s] = u}

\* C12: every UserMessage on a room's channel was recorded in the room's
\* history before it was published, and every recorded message is published
\* or about to be: per room and user, the messages published plus those
\* being published are the messages recorded (fewer than ten are recorded
\* here, so none is evicted); a SendMessage whose recording fails returns the
\* error and publishes nothing.
C12_RecordedBeforePublished ==
    \A r \in Rooms, u \in Users :
        /\ Len(PublishedBy(r, u)) + Cardinality(Publishing(r, u))
              = Len(RecordedBy(r, u))
        /\ \A i \in 1..Len(PublishedBy(r, u)) :
              PublishedBy(r, u)[i].content = RecordedBy(r, u)[i].content

\* C12 witness: a session's first SendMessage was recorded and published and
\* its second one failed to record: one message in the history, one
\* UserMessage on the channel.
C12_Witness ==
    \E s \in Sessions, r \in Rooms :
        /\ r \in joined_rooms[s]
        /\ pc[s] = Idle
        /\ result[s] = "InvalidHandle"
        /\ Len(message_history[r]) = 1
        /\ Len(PublishedBy(r, UserOf[s])) = 1

\* C13: SendMessage, GetHistory and LeaveRoom for a room that is not in the
\* session's map return success and leave every room's history, registry
\* and channel, every session's map and forwarding tasks and every outbound
\* queue as they are.
C13_NotJoinedIsNoOp ==
    [][\A s \in Sessions, r \in RoomNames :
         (NotJoinedNoOp(s, r) /\ r \notin joined_rooms[s]) =>
            /\ result'[s] = "Ok"
            /\ pc'[s] = Idle
            /\ UNCHANGED <<message_history, user_registry, broadcast,
                           joined_rooms, fwd, mpsc, enq_log>>]_vars

\* C13 witness: two sessions are each joined to one room, nothing else has
\* happened in either room, and a third command, naming a room its session
\* is not joined to, has returned success.
C13_Witness ==
    \E s \in Sessions, t \in Sessions, r \in Rooms, q \in Rooms :
        /\ s # t /\ r # q
        /\ ncmds = 3
        /\ joined_rooms[s] = {r} /\ joined_rooms[t] = {q}
        /\ fwd[s][q].status = "none" /\ fwd[t][r].status = "none"
        /\ pc[s] = Idle /\ pc[t] = Idle
        /\ result[s] = "Ok" /\ result[t] = "Ok"
        /\ broadcast[r] = <<RoomParticipation(r, UserOf[s], "Joined")>>
        /\ broadcast[q] = <<RoomParticipation(q, UserOf[t], "Joined")>>
        /\ message_history[r] = <<>> /\ message_history[q] = <<>>
        /\ \A i \in 1..Len(enq_log[s]) : enq_log[s][i].via # "hist"
        /\ \A i \in 1..Len(enq_log[t]) : enq_log[t][i].via # "hist"

\* C14: GetHistory on a joined room fetches the room's history as it is at
\* that moment, every recorded message oldest first (fewer than ten are
\* recorded here), and then places exactly one HistoryResponse with that
\* room and history on the requesting session's queue and nothing on any
\* other session's queue.
C14_HistoryReply ==
    [][\A s \in Sessions :
         /\ (pc[s].op = "idle" /\ pc'[s].op = "hist_send") =>
               /\ pc'[s].room \in joined_rooms[s]
               /\ pc'[s].history = recorded[pc'[s].room]
               /\ UNCHANGED <<mpsc, enq_log>>
         /\ (pc[s].op = "hist_send" /\ pc'[s].op = "idle") =>
               /\ mpsc'[s] = Append(mpsc[s],
                                    HistoryResponse(pc[s].room, pc[s].history))
               /\ Len(enq_log'[s]) = Len(enq_log[s]) + 1
               /\ \A t \in Sessions \ {s} :
                     mpsc'[t] = mpsc[t] /\ enq_log'[t] = enq_log[t]]_vars

\* C14 witness: s1 joined the room after B's message was recorded and got a
\* HistoryResponse carrying that message, while s3, joined to the same room,
\* got none.
C14_Witness ==
    /\ "general" \in joined_rooms["s3"]
    /\ \E i \in 1..Len(enq_log["s1"]) :
          /\ enq_log["s1"][i].via = "hist"
          /\ enq_log["s1"][i].ev.type = "HistoryResponse"
          /\ enq_log["s1"][i].ev.room = "general"
          /\ enq_log["s1"][i].ev.history = << <<"B", "hi">> >>
    /\ \A i \in 1..Len(enq_log["s3"]) :
          enq_log["s3"][i].ev.type # "HistoryResponse"

\* A step in which session s leaves a room or a forwarding task of s is
\* cancelled.
LeavesOrCancels(s) ==
    \E r \in Rooms :
        \/ r \in joined_rooms[s] /\ r \notin joined_rooms'[s]
        \/ fwd[s][r].status # "aborted" /\ fwd'[s][r].status = "aborted"

\* C15: leaving a room and cancelling its forwarding task leave the
\* session's queue as it is, and a queue changes only by an event appended
\* at its back or by recv returning its first event, so every event placed
\* on the queue before the leave is returned by recv, in queue order.
C15_QueueSurvivesCancellation ==
    [][\A s \in Sessions :
         /\ LeavesOrCancels(s) => mpsc'[s] = mpsc[s]
         /\ recv(s) => mpsc[s] # <<>> /\ mpsc'[s] = Tail(mpsc[s])
         /\ mpsc'[s] # mpsc[s] =>
               \/ recv(s)
               \/ /\ Len(enq_log'[s]) = Len(enq_log[s]) + 1
                  /\ mpsc'[s] =
                        Append(mpsc[s], enq_log'[s][Len(enq_log'[s])].ev)]_vars

\* C15 witness: a session has left a room, the leave has returned, and an
\* event the room's forwarding task placed on the queue is still there for
\* recv.
C15_Witness ==
    \E s \in Sessions, r \in Rooms :
        /\ HasLeft(s, r)
        /\ pc[s] = Idle
        /\ fwd[s][r].status = "aborted"
        /\ \E i \in 1..Len(mpsc[s]) :
              /\ mpsc[s][i].room = r
              /\ mpsc[s][i].type = "RoomParticipation"
        /\ ENABLED recv(s)

\* C16: a SendMessage that has recorded its message can always publish it,
\* whatever the other sessions' queues hold and however far their
\* subscriptions are behind, an idle joined session can always start one,
\* and no outbound queue holds more events than its capacity.
C16_PublisherNeverBlocked ==
    \A s \in sessions :
        /\ Len(mpsc[s]) <= MpscCap
        /\ pc[s].op = "send_pub" => ENABLED SendPublish(s)
        /\ \A r \in joined_rooms[s] :
              (pc[s].op = "idle" /\ ncmds < MaxCmds) =>
                 ENABLED SendMessage(s, r, "hi")

\* C16 witness: a session's SendMessage has returned with its UserMessage
\* published while another subscriber of the room had a full queue, its
\* forwarding task waiting to send, and had not read the message.
C16_Witness ==
    \E s \in Sessions, t \in Sessions, r \in Rooms :
        /\ s # t
        /\ pc[s] = Idle /\ result[s] = "Ok"
        /\ Len(broadcast[r]) > 0
        /\ broadcast[r][Len(broadcast[r])] = UserMessage(r, UserOf[s], "hi")
        /\ Subscribed(t, r)
        /\ Len(mpsc[t]) = MpscCap
        /\ fwd[t][r].held # NoEvent
        /\ fwd[t][r].cur < Len(broadcast[r])

\* C17: a JoinRoom or GetHistory command that has reached the send of its
\* reply eventually returns.
C17_ReplyCommandsComplete ==
    \A s \in LiveSessions :
        (pc[s].op \in {"join_send", "hist_send"}) ~> (pc[s].op = "idle")

\* The (user_id, content) pairs of the UserMessage events published on room
\* r's channel, in publish order.
PublishedMessages(r) ==
    LET msgs == SelectSeq(broadcast[r], LAMBDA e : e.type = "UserMessage")
    IN [i \in 1..Len(msgs) |-> <<msgs[i].user_id, msgs[i].content>>]

\* C18: whenever no SendMessage on a room is between recording and
\* publishing, the room's history lists the messages in the order their
\* UserMessage events were published (fewer than ten are recorded here, so
\* the history is the whole published sequence).
C18_HistoryOrderIsPublishOrder ==
    \A r \in Rooms :
        (\A s \in Sessions : ~(pc[s].op = "send_pub" /\ pc[s].room = r)) =>
            get_message_history(r) = PublishedMessages(r)

Received(s) ==
    SubSeq([i \in 1..Len(enq_log[s]) |-> enq_log[s][i].ev],
           1, Len(enq_log[s]) - Len(mpsc[s]))

\* The State of session s's client once it has handled every event recv
\* has returned.
ClientState(s) == handle_server_events(LoggedIn(UserOf[s]), Received(s))

\* The client of session s has every event the server has for it of room r:
\* the forwarding task has read the channel to its end and nothing of the
\* room waits in the task or on the queue.
CaughtUp(s, r) ==
    /\ Subscribed(s, r)
    /\ fwd[s][r].cur = Len(broadcast[r])
    /\ fwd[s][r].held = NoEvent
    /\ \A i \in 1..Len(mpsc[s]) : mpsc[s][i].room # r

\* C20: once the client of a joined session whose subscription has not
\* lagged has handled every event of the room, its user set for the room is
\* the room's distinct-userId set.
C20_ClientUsersAreRoomUsers ==
    \A s \in Sessions, r \in Rooms :
        CaughtUp(s, r) =>
            ClientState(s).room_data_map[r].users = get_unique_user_ids(r)

\* C20 witness: a client has handled the reply of its join and the Joined
\* and Left events of another user, and lists itself alone, as the room
\* does.
C20_Witness ==
    \E s \in Sessions, r \in Rooms :
        /\ CaughtUp(s, r)
        /\ Len(Forwarded(s, r)) = 3
        /\ Forwarded(s, r)[3].type = "RoomParticipation"
        /\ Forwarded(s, r)[3].status = "Left"
        /\ Forwarded(s, r)[3].user_id # UserOf[s]
        /\ ClientState(s).room_data_map[r].users = {UserOf[s]}
        /\ get_unique_user_ids(r) = {UserOf[s]}

\* C21: once the client of a session joined to a room has handled every
\* event of the room, the room is marked as joined in its state and
\* SelectRoom of the room does not write JoinRoom.
C21_JoinedClientDoesNotRejoin ==
    \A s \in Sessions, r \in Rooms :
        CaughtUp(s, r) =>
            /\ ClientState(s).room_data_map[r].has_joined
            /\ \A i \in 1..Len(select_room_commands(ClientState(s), r)) :
                  select_room_commands(ClientState(s), r)[i] # "JoinRoom"

\* The chat messages of user u in the message list of room r of session
\* s's client.
ClientMessages(s, r, u) ==
    SelectSeq(ClientState(s).room_data_map[r].messages,
              LAMBDA m : m.kind = "Message" /\ m.user_id = u)

\* The HistoryResponse events of room r that session s's client has handled.
HistoriesHandled(s, r) ==
    SelectSeq(Received(s),
              LAMBDA e : e.type = "HistoryResponse" /\ e.room = r)

\* The messages user u has sent to room r.
SentBy(r, u) == SelectSeq(recorded[r], LAMBDA m : m[1] = u)

\* Session s has used room r as a client entering it for the first time
\* does: it has joined the room at most once, has merged its history at
\* most once, and its user has sent nothing to the room.
FirstEntry(s, r) ==
    /\ fwd[s][r].gen <= 1
    /\ Len(HistoriesHandled(s, r)) <= 1
    /\ SentBy(r, UserOf[s]) = <<>>

\* C22: the client of a session on its first entry of a room lists every
\* chat message sent to the room at most once: per user, its list holds no
\* more messages than the user has sent to the room.
C22_MessagesListedOnce ==
    \A s \in Sessions, r \in Rooms, u \in Users :
        FirstEntry(s, r) =>
            Len(ClientMessages(s, r, u)) <= Len(SentBy(r, u))

====
